---- MODULE Spec2Model ----
(***************************************************************************)
(* Edge-computing task distribution of the Ventaro edge node               *)
(* (VentaroEdgeComputing, EdgeLoadBalancer, EdgeTaskScheduler):            *)
(* submitTask -> scheduleTask -> selectOptimalNode / calculateNodeScore -> *)
(* processTaskLocally or sendTaskToNode, with the mesh peers, the load     *)
(* reports and the local metrics changing between the awaits.              *)
(***************************************************************************)
EXTENDS Integers, Sequences, FiniteSets, TLC

(***************************************************************************)
(* Bounds of the model.                                                    *)
(***************************************************************************)
\* number of submitTask calls in one behaviour (this.tasks only grows)
MaxTasks == 1
\* number of workers forked after initializeCluster in one behaviour
MaxForks == 3
\* optimizeModels intervals a model's idle time is followed for
MaxTicks == 7
\* inferences that complete on one model in one behaviour
MaxUsage == 2
\* jobs waiting in the queues at one time, in the payload model
MaxQueued == 2
\* requests the API handlers of the ebook shop handle in one behaviour
MaxRequests == 2
\* items.length of batchProcess is at most this
MaxItems == 3

(***************************************************************************)
(* Program constants.                                                      *)
(***************************************************************************)
\* let score = 100
ScoreBase == 100
\* score -= 10; // Network overhead penalty
NetworkPenalty == 10
\* retryAttempts: config.retryAttempts || 3
RetryAttempts == 3
\* os.totalmem(), in the unit memoryUsage is counted in
OsTotalMem == 100
\* this.nodeLoads.get(nodeId) || { cpu: 50, memory: 50, queue: 0 }
DefaultNodeLoad == [cpu |-> 50, memory |-> 50, queue |-> 0]

\* os.cpus().length
OsCpus == 2
\* heartbeat intervals without a heartbeat after which the sweep evicts a peer
HeartbeatTimeoutFactor == 3
\* const maxIdleTime = 30 * 60 * 1000, in minutes
MaxIdleTime == 30
\* the interval of the optimizeModels timer (300000 ms), in minutes
OptimizeInterval == 5
\* config.ai.modelCacheSize
ModelCacheSize == 2
\* the models loadPretrainedModels has loaded, in the order of this.aiModels
ModelOrder == <<"m1", "m2">>
ModelNames == {"m1", "m2"}
\* modelInfo.type
ModelType(m) == IF m = "m1" THEN "tensorflow" ELSE "onnx"
\* inputData of runInference
InferenceInputs == {"x", "y", "z"}

\* config.nodeId
LocalId == "edge-a"
\* ids of the nodes found by discoverEdgeNodes
PeerIds == {"edge-b", "edge-c"}
\* node ids in lexicographic (string) order
SortedIds == <<"edge-a", "edge-b", "edge-c">>

\* the queue types of initializeQueues
QueueTypes ==
  {"image-processing", "video-processing", "audio-processing", "text-processing",
   "ai-inference", "data-analysis", "real-time-processing"}

\* capabilities.processing of the node record of each discovered peer
PeerProcessing ==
  [n \in PeerIds |->
     IF n = "edge-b" THEN {"image-processing"}
                     ELSE {"image-processing", "ai-inference"}]

\* getNodeCapabilities().processing: the keys of processingQueues
LocalProcessing == QueueTypes

\* the task types a node advertises
Capabilities(nodeId) ==
  IF nodeId = LocalId THEN LocalProcessing
  ELSE IF nodeId \in PeerIds THEN PeerProcessing[nodeId] ELSE {}

(***************************************************************************)
(* Inputs.                                                                 *)
(***************************************************************************)
\* options.nodeAffinity left undefined
NoAffinity == ""
\* no node (a call that has not returned one)
NoNode == "none"
\* task types handed to submitTask; "hologram" has no queue anywhere
TaskTypes == {"image-processing", "ai-inference", "hologram"}
\* options.nodeAffinity
Affinities == {NoAffinity, LocalId} \cup PeerIds
\* options.retries of submitTask: not given, or a number of its own
Undefined == -1
RetriesValues == {Undefined, 1, 5}
\* metrics.cpuUsage around the thresholds of optimizeResources
WorkerCpuValues == {10, 50, 90}
\* stats.cpu of pidusage
CpuValues == {10, 90}
\* stats.memory of pidusage, in units of OsTotalMem / 100
MemValues == {20}
\* load reports of the peers
LoadValues == {[cpu |-> 10, memory |-> 20, queue |-> 0]}

\* inputs of the direct calls of the scorer (SpecScore)
CpuProbe == {0, 10, 60, 250}
MemProbe == {0, 20, 100}
DepthProbe == {0, 7, 150}
LoadProbe ==
  {[cpu |-> 10, memory |-> 20, queue |-> 0],
   [cpu |-> 30, memory |-> 30, queue |-> 5],
   [cpu |-> 95, memory |-> 20, queue |-> 140]}
\* the type whose queue depth the direct calls vary
ProbeType == "image-processing"

VARIABLES
  wsState,      \* per discovered peer: the state of the WebSocket of connectToEdgeNode
  meshClients,  \* this.meshClients: the keys of the Map, in insertion order
  nodeLoads,    \* loadBalancer.nodeLoads: a Map from node id to {cpu, memory, queue}
  cpuUsage,     \* metrics.cpuUsage
  memoryUsage,  \* metrics.memoryUsage
  waiting,      \* per queue type: the number of waiting jobs (queue.getWaiting().length)
  tasks,        \* this.tasks: task id -> task (ids are 1..Len(tasks))
  proc,         \* per task: the frame of its submitTask call
  lastScore,    \* result of the last direct calculateNodeScore call
  lastSelect,   \* result of the last direct selectOptimalNode call
  jobs,         \* the Bull jobs of the local queues: task id -> job
  notified,     \* per task: the calls the queue listeners made for its job
  heartbeatAge, \* per peer: heartbeat intervals since lastHeartbeat of its entry
  workers,      \* this.workers: the ids of the Map (insertion order = id order)
  exiting,      \* workers gone whose cluster 'exit' event is still to be handled
  forked,       \* number of cluster.fork() calls so far (the last worker id)
  aiModels,     \* this.aiModels: model name -> modelInfo, for the models loaded
  inflight,     \* runInference calls that await their result: their cache keys
  modelCache,   \* this.modelCache: the keys of the Map, in insertion order
  cacheUse,     \* the cached keys in the order of their last use (oldest first)
  crashed,      \* an exception has left a timer callback uncaught
  bullJobs,     \* the payload model: waiting jobs, each the queue it is on and its data
  handled,      \* the payload model: the queue and the handler of the last job run
  request,      \* ebook shop: the last request an API handler was called with
  response,     \* ebook shop: the response to it
  effects,      \* ebook shop: signed URLs created, purchase rows inserted, emails sent
  handledCount, \* ebook shop: requests handled so far
  batchCall,    \* batchProcess: its arguments, its position and the loop index i
  batchItems,   \* batchProcess: per item index the state of its processItem call
  devices,      \* IoT manager, this.devices: device id -> status, NotRegistered if absent
  devicesConnected  \* IoT manager: metrics.devicesConnected

vars ==
  <<wsState, meshClients, nodeLoads, cpuUsage, memoryUsage, waiting, tasks, proc,
    lastScore, lastSelect, jobs, notified, heartbeatAge, workers, exiting, forked,
    aiModels, inflight, modelCache, cacheUse, crashed, bullJobs, handled,
    request, response, effects, handledCount, batchCall, batchItems,
    devices, devicesConnected>>

(***************************************************************************)
(* Helpers.                                                                *)
(***************************************************************************)
RECURSIVE IndexOf(_, _, _)
IndexOf(s, x, i) ==
  IF i > Len(s) THEN 0 ELSE IF s[i] = x THEN i ELSE IndexOf(s, x, i + 1)

\* position of a node id in the lexicographic order
Rank(n) == IndexOf(SortedIds, n, 1)

\* Array.from(Map.keys()) after Map.delete(key)
RECURSIVE Without(_, _)
Without(s, x) ==
  IF s = <<>> THEN <<>>
  ELSE IF Head(s) = x THEN Without(Tail(s), x)
  ELSE <<Head(s)>> \o Without(Tail(s), x)

SeqSet(s) == {s[i] : i \in 1..Len(s)}

\* Math.max(0, score)
MathMax0Unfloored(x) == x
MathMax0(x) == IF x > 0 THEN x ELSE 0

(***************************************************************************)
(* EdgeLoadBalancer.calculateNodeScore                                     *)
(***************************************************************************)
\* (this.edgeNode.metrics.memoryUsage / os.totalmem()) * 100
MemoryPercent == (memoryUsage * 100) \div OsTotalMem

\* local branch up to the await of queue.getWaiting()
LocalPartial == ScoreBase - cpuUsage - MemoryPercent

\* local branch after the await: score -= waiting.length; Math.max(0, score)
FinishLocal(partial, type) == MathMax0(partial - waiting[type])

\* this.nodeLoads.get(nodeId) || default
NodeLoadOf(nodeId) ==
  IF nodeId \in DOMAIN nodeLoads THEN nodeLoads[nodeId] ELSE DefaultNodeLoad

\* remote branch
RemoteScoreNoPenalty(nodeId) ==
  MathMax0(ScoreBase - NodeLoadOf(nodeId).cpu - NodeLoadOf(nodeId).memory
           - NodeLoadOf(nodeId).queue)
RemoteScore(nodeId) ==
  MathMax0(ScoreBase - NodeLoadOf(nodeId).cpu - NodeLoadOf(nodeId).memory
           - NodeLoadOf(nodeId).queue - NetworkPenalty)

\* calculateNodeScore(nodeId, task) when nothing runs between its steps
CalculateNodeScore(nodeId, type) ==
  IF nodeId = LocalId
  THEN IF type \in QueueTypes THEN FinishLocal(LocalPartial, type)
                              ELSE MathMax0(LocalPartial)
  ELSE RemoteScore(nodeId)

(***************************************************************************)
(* EdgeLoadBalancer.selectOptimalNode                                      *)
(***************************************************************************)
\* if (score > bestScore)
BetterReversed(score, bestScore) == score < bestScore
Better(score, bestScore) == score > bestScore

\* the for loop over the remote entries of availableNodes, from a given best
RECURSIVE LoopRemote(_, _)
LoopRemote(nodes, best) ==
  IF nodes = <<>> THEN best
  ELSE LET s == RemoteScore(Head(nodes))
       IN LoopRemote(Tail(nodes),
                     IF Better(s, best.score)
                     THEN [node |-> Head(nodes), score |-> s]
                     ELSE best)

\* the last iteration of the loop: the local node, pushed last
LoopLocal(best, score) ==
  IF Better(score, best.score) THEN [node |-> LocalId, score |-> score] ELSE best

\* the scores the loop over the remote entries computes
RemoteScored(nodes) == {<<nodes[i], RemoteScore(nodes[i])>> : i \in 1..Len(nodes)}

\* const availableNodes = Array.from(this.edgeNode.meshClients.keys())
AvailableNodesDiscovered == <<"edge-b", "edge-c">>
AvailableNodes == meshClients

\* selectOptimalNode(task) when nothing runs between its steps;
\* peers is Array.from(meshClients.keys())
SelectOptimalNode(peers, type) ==
  LET s0 == CalculateNodeScore(LocalId, type)
      b1 == LoopRemote(peers, [node |-> LocalId, score |-> s0])
  IN LoopLocal(b1, CalculateNodeScore(LocalId, type)).node

(***************************************************************************)
(* EdgeTaskScheduler.scheduleTask                                          *)
(***************************************************************************)
\* if (task.options.nodeAffinity)
AffinityIgnored(nodeAffinity) == FALSE
HasAffinity(nodeAffinity) == nodeAffinity # NoAffinity

(***************************************************************************)
(* VentaroEdgeComputing.submitTask after scheduleTask has returned         *)
(***************************************************************************)
\* where submitTask goes with targetNode: processTaskLocally throws for a type
\* without a queue and awaits queue.add otherwise; a remote target is awaited
\* in sendTaskToNode
DispatchNoAwait(type, target) ==
  IF target = LocalId
  THEN IF type \in QueueTypes
       THEN [pc |-> "add", error |-> "none"]
       ELSE [pc |-> "rejected", error |-> "Unknown task type"]
  ELSE [pc |-> "returned", error |-> "none"]
DispatchAllLocal(type, target) ==
  IF type \in QueueTypes
  THEN [pc |-> "add", error |-> "none"]
  ELSE [pc |-> "rejected", error |-> "Unknown task type"]
Dispatch(type, target) ==
  IF target = LocalId
  THEN IF type \in QueueTypes
       THEN [pc |-> "add", error |-> "none"]
       ELSE [pc |-> "rejected", error |-> "Unknown task type"]
  ELSE [pc |-> "send", error |-> "none"]

\* retries: options.retries || this.config.processing.retryAttempts
TaskRetries(retries) == IF retries = Undefined THEN RetryAttempts ELSE retries

NewTaskStarted(type, nodeAffinity, retries) ==
  [type |-> type, nodeAffinity |-> nodeAffinity, retries |-> TaskRetries(retries),
   status |-> "processing"]
NewTask(type, nodeAffinity, retries) ==
  [type |-> type, nodeAffinity |-> nodeAffinity, retries |-> TaskRetries(retries),
   status |-> "pending"]

\* attempts of defaultJobOptions; queue.add passes priority, delay and timeout only
JobAttempts == RetryAttempts

\* handleTaskFailed(job, error): the task-failed events it emits for the job
\* it is handed, one with a QueueExhaustedError once the attempts are used up
HandleTaskFailedEveryAttempt(job) == 1
HandleTaskFailed(job) == IF job.attemptsMade >= job.attempts THEN 1 ELSE 0

\* the job queue.add creates
NewJob == [state |-> "waiting", attemptsMade |-> 0, attempts |-> JobAttempts]

\* no job in any queue and no listener call yet
NoJobs ==
  /\ jobs = <<>>
  /\ notified = [t \in 1..MaxTasks |-> [failed |-> 0, completed |-> 0, taskFailed |-> 0]]

\* the type field of the data a task is submitted with; NoType: no such field
NoType == "undefined"
DataTypes == {"image-processing", "ai-inference", "hologram", NoType}
\* the supported types tasks are submitted with in the payload model
SubmittedTypes == TaskTypes \cap QueueTypes
NoHandled == [queue |-> "", handler |-> ""]
UnknownTaskType == "Unknown task type"

\* req.method
Methods == {"GET", "POST"}
\* req.headers['stripe-signature']: the signature of the body under the
\* endpoint secret, another signature, or none
ValidSignature == "t=1,v1=hmac(body)"
Signatures == {ValidSignature, "t=1,v1=other", "undefined"}
\* event.type
EventTypes ==
  {"checkout.session.completed", "payment_intent.payment_failed", "charge.refunded"}
\* req.query.session_id: none, or the id of a checkout session
NoSessionId == "undefined"
SessionIds == {NoSessionId, "cs_paid", "cs_unpaid", "cs_free", "cs_unknown"}
\* session.payment_status of the sessions Stripe knows
PaymentStatus ==
  [cs_paid |-> "paid", cs_unpaid |-> "unpaid", cs_free |-> "no_payment_required"]
NoRequest ==
  [handler |-> "", method |-> "", sig |-> "", type |-> "", session_id |-> "",
   urlError |-> FALSE, dbError |-> FALSE, emailError |-> FALSE]
NoResponse == [status |-> 0, downloadUrl |-> FALSE]

\* the indexes of the items of batchProcess
ItemIndexes == 0..(MaxItems - 1)
\* options.concurrency and options.retries of batchProcess
Concurrencies == {0, 1, 2}
RetryCounts == {-1, 0, 1}
\* a processItem call not started: no attempt, no processor call, no outcome
NoItem == [st |-> "none", attempts |-> 0, calls |-> 0, result |-> FALSE, error |-> FALSE]

\* deviceInfo.id of the IoT manager's devices, and the status values reported
DeviceIds == {"d1", "d2", "d3"}
DeviceStatuses == {"online", "offline", "error"}
NotRegistered == "undefined"

\* what loadModel sets for a model: usageCount: 0, lastUsed: new Date()
LoadedModel == [loaded |-> TRUE, disposed |-> FALSE, idle |-> 0, usageCount |-> 0]

\* loadPretrainedModels has loaded the models, the result cache is empty
ModelsLoaded ==
  /\ aiModels = [m \in ModelNames |-> LoadedModel]
  /\ inflight = {}
  /\ modelCache = <<>>
  /\ cacheUse = <<>>
  /\ crashed = FALSE

\* no job with a payload has been added to a queue yet
NoPayloadJobs ==
  /\ bullJobs = <<>>
  /\ handled = NoHandled

\* the API handlers of the ebook shop have not been called yet
NoRequests ==
  /\ request = NoRequest
  /\ response = NoResponse
  /\ effects = [signedUrls |-> 0, purchases |-> 0, emails |-> 0]
  /\ handledCount = 0

\* batchProcess has not been called yet
NoBatch ==
  /\ batchCall = [pc |-> "idle", items |-> 0, concurrency |-> 0, retries |-> 0, i |-> 0]
  /\ batchItems = [index \in ItemIndexes |-> NoItem]

\* the IoT manager as constructed: no device, devicesConnected: 0
NoDevices ==
  /\ devices = [id \in DeviceIds |-> NotRegistered]
  /\ devicesConnected = 0

SideInit == ModelsLoaded /\ NoPayloadJobs /\ NoRequests /\ NoBatch /\ NoDevices

\* initializeCluster has forked config.cluster.workers = os.cpus().length workers
ClusterForked ==
  /\ workers = 1..OsCpus
  /\ exiting = {}
  /\ forked = OsCpus

Frame(pc, avail, partial, best, target, error, scored, calls) ==
  [pc |-> pc, availableNodes |-> avail, partial |-> partial, best |-> best,
   target |-> target, error |-> error, scored |-> scored, scoreCalls |-> calls,
   scheduleCalls |-> 1, dispatchFailures |-> 0, lostPeer |-> FALSE]

NoBest == [node |-> NoNode, score |-> 0]

TypeOK ==
  /\ wsState \in [PeerIds -> {"connecting", "open", "closed", "evicted"}]
  /\ SeqSet(meshClients) = {n \in PeerIds : wsState[n] = "open"}
  /\ DOMAIN nodeLoads \subseteq PeerIds
  /\ cpuUsage \in CpuValues \cup WorkerCpuValues \cup {0}
  /\ Len(tasks) = Len(proc)
  /\ Len(tasks) <= MaxTasks

Init ==
  /\ wsState = [n \in PeerIds |-> "connecting"]
  /\ meshClients = <<>>
  /\ nodeLoads = <<>>
  /\ cpuUsage = 0
  /\ memoryUsage = 0
  /\ waiting = [q \in QueueTypes |-> 0]
  /\ tasks = <<>>
  /\ proc = <<>>
  /\ lastScore = [node |-> NoNode, type |-> "none", score |-> 0]
  /\ lastSelect = [type |-> "none", node |-> NoNode]
  /\ NoJobs
  /\ heartbeatAge = [n \in PeerIds |-> 0]
  /\ ClusterForked
  /\ SideInit

envVars == <<wsState, meshClients, nodeLoads, cpuUsage, memoryUsage>>
probeVars == <<lastScore, lastSelect>>
queueVars == <<jobs, notified>>
workerVars == <<workers, exiting, forked>>
modelVars == <<aiModels, inflight, modelCache, cacheUse, crashed>>
payloadVars == <<bullJobs, handled>>
shopVars == <<request, response, effects, handledCount>>
batchVars == <<batchCall, batchItems>>
iotVars == <<devices, devicesConnected>>
sideVars == <<modelVars, payloadVars, shopVars, batchVars, iotVars>>
edgeVars ==
  <<envVars, waiting, tasks, proc, probeVars, queueVars, heartbeatAge, workerVars>>
\* everything but the variables of the models, and of the payload model
exceptModels == <<edgeVars, payloadVars, shopVars, batchVars, iotVars>>
exceptPayload == <<edgeVars, modelVars, shopVars, batchVars, iotVars>>
exceptShop == <<edgeVars, modelVars, payloadVars, batchVars, iotVars>>
exceptBatch == <<edgeVars, modelVars, payloadVars, shopVars, iotVars>>
exceptIot == <<edgeVars, modelVars, payloadVars, shopVars, batchVars>>

(***************************************************************************)
(* submitTask                                                              *)
(***************************************************************************)
\* submitTask up to its first await that lets other events run
SubmitTaskOpts(type, nodeAffinity, retries) ==
  /\ Len(tasks) < MaxTasks
  /\ tasks' = Append(tasks, NewTask(type, nodeAffinity, retries))
  /\ IF HasAffinity(nodeAffinity)
     THEN \* scheduleTask returns the affinity node
          LET d == Dispatch(type, nodeAffinity)
          IN proc' = Append(proc,
               Frame(d.pc, <<>>, 0, NoBest, nodeAffinity, d.error, {}, 0))
     ELSE IF type \in QueueTypes
     THEN \* calculateNodeScore(local) awaits queue.getWaiting()
          proc' = Append(proc,
               Frame("score0", AvailableNodes, LocalPartial, NoBest, NoNode, "none", {}, 1))
     ELSE \* no queue of that type: no await lets another event in
          LET target == SelectOptimalNode(AvailableNodes, type)
              d == Dispatch(type, target)
          IN proc' = Append(proc,
               Frame(d.pc, <<>>, 0, NoBest, target, d.error, {},
                     Len(AvailableNodes) + 2))
  /\ UNCHANGED <<envVars, waiting, probeVars, queueVars, heartbeatAge, workerVars, sideVars>>

\* submitTask(type, data, options) with no retries among the options
SubmitTask(type, nodeAffinity) == SubmitTaskOpts(type, nodeAffinity, Undefined)

\* the first getWaiting() answers: the local score, then the loop over the
\* remote nodes, up to the getWaiting() of the local node pushed last
ResumeScoreFirst(t) ==
  /\ t \in 1..Len(proc)
  /\ proc[t].pc = "score0"
  /\ LET f == proc[t]
         s0 == FinishLocal(f.partial, tasks[t].type)
         b1 == LoopRemote(f.availableNodes, [node |-> LocalId, score |-> s0])
     IN proc' = [proc EXCEPT ![t] =
          Frame("scoreN", f.availableNodes, LocalPartial, b1, NoNode, "none",
                {<<LocalId, s0>>} \cup RemoteScored(f.availableNodes),
                f.scoreCalls + Len(f.availableNodes) + 1)]
  /\ UNCHANGED <<envVars, waiting, tasks, probeVars, queueVars, heartbeatAge,
                 workerVars, sideVars>>

\* the last getWaiting() answers: selectOptimalNode and scheduleTask return,
\* submitTask goes on to the dispatch
ResumeScoreLast(t) ==
  /\ t \in 1..Len(proc)
  /\ proc[t].pc = "scoreN"
  /\ LET f == proc[t]
         sN == FinishLocal(f.partial, tasks[t].type)
         b == LoopLocal(f.best, sN)
         d == Dispatch(tasks[t].type, b.node)
     IN proc' = [proc EXCEPT ![t] =
          [Frame(d.pc, <<>>, 0, NoBest, b.node, d.error, {}, f.scoreCalls)
             EXCEPT !.lostPeer = b.node \in PeerIds \ SeqSet(meshClients)]]
  /\ UNCHANGED <<envVars, waiting, tasks, probeVars, queueVars, heartbeatAge,
                 workerVars, sideVars>>

\* processTaskLocally after queue.add: the job waits in the queue
QueueAdded(t) ==
  /\ t \in 1..Len(proc)
  /\ proc[t].pc = "add"
  /\ waiting' = [waiting EXCEPT ![tasks[t].type] = @ + 1]
  /\ tasks' = [tasks EXCEPT ![t].status = "processing"]
  /\ proc' = [proc EXCEPT ![t].pc = "returned"]
  /\ jobs' = [u \in DOMAIN jobs \cup {t} |-> IF u = t THEN NewJob ELSE jobs[u]]
  /\ UNCHANGED <<envVars, probeVars, notified, heartbeatAge, workerVars, sideVars>>

\* sendTaskToNode settles: the peer took the task, which only a connected
\* peer can, or the dispatch failed and the rejection leaves submitTask
SendSettled(t, ok) ==
  /\ t \in 1..Len(proc)
  /\ proc[t].pc = "send"
  /\ ok => proc[t].target \in SeqSet(meshClients)
  /\ proc' = [proc EXCEPT ![t].pc = IF ok THEN "returned" ELSE "rejected",
                          ![t].error = IF ok THEN "none" ELSE "Dispatch failed",
                          ![t].dispatchFailures = IF ok THEN @ ELSE @ + 1]
  /\ UNCHANGED <<envVars, waiting, tasks, probeVars, queueVars, heartbeatAge,
                 workerVars, sideVars>>

\* queue.process takes a waiting job
QueueTake(type) ==
  /\ waiting[type] > 0
  /\ waiting' = [waiting EXCEPT ![type] = @ - 1]
  /\ \E t \in DOMAIN jobs :
       /\ tasks[t].type = type
       /\ jobs[t].state = "waiting"
       /\ jobs' = [jobs EXCEPT ![t].state = "active"]
  /\ UNCHANGED <<envVars, tasks, proc, probeVars, notified, heartbeatAge, workerVars, sideVars>>

(***************************************************************************)
(* Mesh and metrics                                                        *)
(***************************************************************************)
\* ws.on('open')
WsOpen(n) ==
  /\ wsState[n] = "connecting"
  /\ wsState' = [wsState EXCEPT ![n] = "open"]
  /\ meshClients' = Append(meshClients, n)
  /\ heartbeatAge' = [heartbeatAge EXCEPT ![n] = 0]
  /\ UNCHANGED <<nodeLoads, cpuUsage, memoryUsage, waiting, tasks, proc, probeVars,
                 queueVars, workerVars, sideVars>>

\* ws.on('close')
WsClose(n) ==
  /\ wsState[n] \in {"connecting", "open"}
  /\ wsState' = [wsState EXCEPT ![n] = "closed"]
  /\ meshClients' = Without(meshClients, n)
  /\ heartbeatAge' = [heartbeatAge EXCEPT ![n] = 0]
  /\ UNCHANGED <<nodeLoads, cpuUsage, memoryUsage, waiting, tasks, proc, probeVars,
                 queueVars, workerVars, sideVars>>

\* a connected peer reports its resource snapshot
ReportLoad(n, load) ==
  /\ wsState[n] = "open"
  /\ nodeLoads' = [m \in DOMAIN nodeLoads \cup {n} |->
                     IF m = n THEN load ELSE nodeLoads[m]]
  /\ heartbeatAge' = [heartbeatAge EXCEPT ![n] = 0]
  /\ UNCHANGED <<wsState, meshClients, cpuUsage, memoryUsage, waiting, tasks, proc,
                 probeVars, queueVars, workerVars, sideVars>>

\* collectSystemMetrics
CollectSystemMetrics(cpu, mem) ==
  /\ <<cpu, mem>> # <<cpuUsage, memoryUsage>>
  /\ cpuUsage' = cpu
  /\ memoryUsage' = mem
  /\ UNCHANGED <<wsState, meshClients, nodeLoads, waiting, tasks, proc, probeVars,
                 queueVars, heartbeatAge, workerVars, sideVars>>

Next ==
  \/ \E type \in TaskTypes, a \in Affinities : SubmitTask(type, a)
  \/ \E t \in 1..MaxTasks : ResumeScoreFirst(t)
  \/ \E t \in 1..MaxTasks : ResumeScoreLast(t)
  \/ \E t \in 1..MaxTasks : QueueAdded(t)
  \/ \E t \in 1..MaxTasks, ok \in BOOLEAN : SendSettled(t, ok)
  \/ \E type \in QueueTypes : QueueTake(type)
  \/ \E n \in PeerIds : WsOpen(n)
  \/ \E n \in PeerIds : WsClose(n)
  \/ \E n \in PeerIds, load \in LoadValues : ReportLoad(n, load)
  \/ \E cpu \in CpuValues, mem \in MemValues : CollectSystemMetrics(cpu, mem)

Spec == Init /\ [][Next]_vars

(***************************************************************************)
(* Direct calls of calculateNodeScore and selectOptimalNode on a node      *)
(* whose metrics, queues, peers and load reports are drawn from the probe  *)
(* sets and stay as they are during the call.                              *)
(***************************************************************************)
MeshOrders ==
  {<<>>, <<"edge-b">>, <<"edge-c">>, <<"edge-b", "edge-c">>, <<"edge-c", "edge-b">>}

InitScore ==
  /\ meshClients \in MeshOrders
  /\ wsState = [n \in PeerIds |->
                  IF n \in SeqSet(meshClients) THEN "open" ELSE "connecting"]
  /\ \E known \in SUBSET PeerIds : nodeLoads \in [known -> LoadProbe]
  /\ cpuUsage \in CpuProbe
  /\ memoryUsage \in MemProbe
  /\ \E d \in DepthProbe :
       waiting = [q \in QueueTypes |-> IF q = ProbeType THEN d ELSE 0]
  /\ tasks = <<>>
  /\ proc = <<>>
  /\ lastScore = [node |-> NoNode, type |-> "none", score |-> 0]
  /\ lastSelect = [type |-> "none", node |-> NoNode]
  /\ NoJobs
  /\ heartbeatAge = [n \in PeerIds |-> 0]
  /\ ClusterForked
  /\ SideInit

\* await loadBalancer.calculateNodeScore(nodeId, task)
CallCalculateNodeScore(nodeId, type) ==
  /\ lastScore' = [node |-> nodeId, type |-> type,
                   score |-> CalculateNodeScore(nodeId, type)]
  /\ UNCHANGED <<envVars, waiting, tasks, proc, lastSelect, queueVars, heartbeatAge,
                 workerVars, sideVars>>

\* await loadBalancer.selectOptimalNode(task)
CallSelectOptimalNode(type) ==
  /\ lastSelect' = [type |-> type, node |-> SelectOptimalNode(AvailableNodes, type)]
  /\ UNCHANGED <<envVars, waiting, tasks, proc, lastScore, queueVars, heartbeatAge,
                 workerVars, sideVars>>

NextScore ==
  \/ \E n \in {LocalId} \cup PeerIds, type \in TaskTypes :
       CallCalculateNodeScore(n, type)
  \/ \E type \in TaskTypes : CallSelectOptimalNode(type)

SpecScore == InitScore /\ [][NextScore]_vars

(***************************************************************************)
(* The local Bull queues of initializeQueues: a job is processed, and a    *)
(* failed attempt is repeated after its backoff until the attempts of      *)
(* defaultJobOptions are used up.  Bull emits 'failed' after every failed  *)
(* attempt and 'completed' once; the listeners hand the job to             *)
(* handleTaskFailed and handleTaskCompleted.                               *)
(***************************************************************************)
\* the processor (processTask) throws for the active job of task t
JobFailed(t) ==
  /\ t \in DOMAIN jobs
  /\ jobs[t].state = "active"
  /\ LET made == jobs[t].attemptsMade + 1
         job == [jobs[t] EXCEPT !.attemptsMade = made,
                                !.state = IF made < jobs[t].attempts
                                          THEN "delayed" ELSE "failed"]
     IN /\ jobs' = [jobs EXCEPT ![t] = job]
        /\ notified' = [notified EXCEPT ![t].failed = @ + 1,
                                        ![t].taskFailed = @ + HandleTaskFailed(job)]
  /\ UNCHANGED <<envVars, waiting, tasks, proc, probeVars, heartbeatAge, workerVars, sideVars>>

\* the backoff of a failed attempt is over: the job waits again
JobRetry(t) ==
  /\ t \in DOMAIN jobs
  /\ jobs[t].state = "delayed"
  /\ jobs' = [jobs EXCEPT ![t].state = "waiting"]
  /\ waiting' = [waiting EXCEPT ![tasks[t].type] = @ + 1]
  /\ UNCHANGED <<envVars, tasks, proc, probeVars, notified, heartbeatAge, workerVars, sideVars>>

\* the processor returns for the active job of task t
JobCompleted(t) ==
  /\ t \in DOMAIN jobs
  /\ jobs[t].state = "active"
  /\ jobs' = [jobs EXCEPT ![t].state = "completed"]
  /\ notified' = [notified EXCEPT ![t].completed = @ + 1]
  /\ UNCHANGED <<envVars, waiting, tasks, proc, probeVars, heartbeatAge, workerVars, sideVars>>

NextQueue ==
  \/ \E type \in TaskTypes, a \in {NoAffinity, LocalId}, retries \in RetriesValues :
       SubmitTaskOpts(type, a, retries)
  \/ \E t \in 1..MaxTasks : ResumeScoreFirst(t)
  \/ \E t \in 1..MaxTasks : ResumeScoreLast(t)
  \/ \E t \in 1..MaxTasks : QueueAdded(t)
  \/ \E type \in QueueTypes : QueueTake(type)
  \/ \E t \in 1..MaxTasks : JobFailed(t)
  \/ \E t \in 1..MaxTasks : JobRetry(t)
  \/ \E t \in 1..MaxTasks : JobCompleted(t)

SpecQueue == Init /\ [][NextQueue]_vars

(***************************************************************************)
(* Heartbeats of the mesh peers.  An entry of meshClients carries the time *)
(* of its last heartbeat; startHeartbeat runs the sweep that evicts a peer *)
(* whose heartbeat is older than HeartbeatTimeoutFactor intervals.         *)
(***************************************************************************)
\* the peers of meshClients whose last heartbeat is too old
Stale == {n \in SeqSet(meshClients) : heartbeatAge[n] > HeartbeatTimeoutFactor}

\* one heartbeatInterval passes; the sweep of the interval before has run
HeartbeatTick ==
  /\ meshClients # <<>>
  /\ Stale = {}
  /\ heartbeatAge' = [n \in PeerIds |->
                        IF n \in SeqSet(meshClients)
                        THEN heartbeatAge[n] + 1 ELSE heartbeatAge[n]]
  /\ UNCHANGED <<wsState, meshClients, nodeLoads, cpuUsage, memoryUsage, waiting,
                 tasks, proc, probeVars, queueVars, workerVars, sideVars>>

\* the sweep: every stale peer leaves meshClients
EvictStale ==
  /\ Stale # {}
  /\ meshClients' = SelectSeq(meshClients, LAMBDA n : n \notin Stale)
  /\ wsState' = [n \in PeerIds |-> IF n \in Stale THEN "evicted" ELSE wsState[n]]
  /\ heartbeatAge' = [n \in PeerIds |-> IF n \in Stale THEN 0 ELSE heartbeatAge[n]]
  /\ UNCHANGED <<nodeLoads, cpuUsage, memoryUsage, waiting, tasks, proc, probeVars,
                 queueVars, workerVars, sideVars>>

NextHeartbeat ==
  \/ \E n \in PeerIds : WsOpen(n)
  \/ \E n \in PeerIds : WsClose(n)
  \/ \E n \in PeerIds, load \in LoadValues : ReportLoad(n, load)
  \/ HeartbeatTick
  \/ EvictStale
  \/ \E type \in TaskTypes : SubmitTask(type, NoAffinity)

SpecHeartbeat == Init /\ [][NextHeartbeat]_vars

(***************************************************************************)
(* The worker pool of the master: initializeCluster and its 'exit'         *)
(* handler, and EdgeOptimizer.optimizeResources on its one-minute timer.   *)
(***************************************************************************)
\* avgCpuUsage > 80 && currentWorkers < maxWorkers
ScaleUp(avgCpuUsage, currentWorkers) ==
  avgCpuUsage > 80 /\ currentWorkers < OsCpus

\* avgCpuUsage < 30 && currentWorkers > 1
ScaleDown(avgCpuUsage, currentWorkers) ==
  avgCpuUsage < 30 /\ currentWorkers > 1

\* Array.from(this.edgeNode.workers.values())[0]: the worker inserted first
FirstWorker == CHOOSE w \in workers : \A v \in workers : w <= v

\* one run of optimizeResources
OptimizeResources ==
  /\ IF ScaleUp(cpuUsage, Cardinality(workers))
     THEN /\ forked < OsCpus + MaxForks
          /\ workers' = workers \cup {forked + 1}
          /\ forked' = forked + 1
          /\ UNCHANGED exiting
     ELSE IF ScaleDown(cpuUsage, Cardinality(workers))
     THEN \* worker.kill() and workers.delete; its 'exit' event comes later
          /\ workers' = workers \ {FirstWorker}
          /\ exiting' = exiting \cup {FirstWorker}
          /\ UNCHANGED forked
     ELSE UNCHANGED workerVars
  /\ UNCHANGED <<envVars, waiting, tasks, proc, probeVars, queueVars, heartbeatAge,
                 sideVars>>

\* cluster.on('exit') for worker w, one that died on its own or one that
\* optimizeResources killed: the entry is deleted and a new worker is forked
WorkerExit(w) ==
  /\ w \in workers \cup exiting
  /\ forked < OsCpus + MaxForks
  /\ workers' = (workers \ {w}) \cup {forked + 1}
  /\ exiting' = exiting \ {w}
  /\ forked' = forked + 1
  /\ UNCHANGED <<envVars, waiting, tasks, proc, probeVars, queueVars, heartbeatAge,
                 sideVars>>

NextWorkers ==
  \/ OptimizeResources
  \/ \E w \in 1..(OsCpus + MaxForks) : WorkerExit(w)
  \/ \E cpu \in WorkerCpuValues, mem \in MemValues : CollectSystemMetrics(cpu, mem)

SpecWorkers == Init /\ [][NextWorkers]_vars

(***************************************************************************)
(* The payload of a task: processTaskLocally adds task.data to the queue   *)
(* of task.type and the queue's processor calls processTask(job.data).     *)
(***************************************************************************)
\* the switch of processTask: the handler of taskData.type, or the default
ProcessTaskHandler(taskData) ==
  IF taskData.type \in QueueTypes THEN taskData.type ELSE UnknownTaskType

\* processTaskLocally: queue.add(task.data, ...) on the queue of task.type
AddPayloadJob(type, dataType) ==
  /\ Len(bullJobs) < MaxQueued
  /\ bullJobs' = Append(bullJobs, [queue |-> type, data |-> [type |-> dataType]])
  /\ UNCHANGED <<exceptPayload, handled>>

\* queue.process: processTask(job.data) for the first waiting job
ProcessPayloadJob ==
  /\ bullJobs # <<>>
  /\ handled' = [queue |-> Head(bullJobs).queue,
                 handler |-> ProcessTaskHandler(Head(bullJobs).data)]
  /\ bullJobs' = Tail(bullJobs)
  /\ UNCHANGED exceptPayload

NextPayload ==
  \/ \E type \in SubmittedTypes, dataType \in DataTypes : AddPayloadJob(type, dataType)
  \/ ProcessPayloadJob

SpecPayload == Init /\ [][NextPayload]_vars

(***************************************************************************)
(* The ebook shop: api/stripe-webhook.js and api/get-download-link.js.     *)
(* urlError, dbError and emailError are the outcomes of Supabase storage,  *)
(* the Supabase insert and SendGrid.                                       *)
(***************************************************************************)
\* stripe.webhooks.constructEvent returns the event, rather than throws
ConstructEventUnverified(sig) == TRUE
ConstructEvent(sig) == sig = ValidSignature

\* session.payment_status !== 'paid' is false
PaymentAny(payment_status) == TRUE
PaymentCompleted(payment_status) == payment_status = "paid"

\* signed URL, purchase row and email of a purchase; a failed insert or mail
\* is logged and skipped
Fulfil(dbError, emailError) ==
  [signedUrls |-> effects.signedUrls + 1,
   purchases |-> effects.purchases + (IF dbError THEN 0 ELSE 1),
   emails |-> effects.emails + (IF emailError THEN 0 ELSE 1)]

Respond(status, downloadUrl) == [status |-> status, downloadUrl |-> downloadUrl]

\* POST /api/stripe-webhook
StripeWebhook(method, sig, type, urlError, dbError, emailError) ==
  /\ handledCount < MaxRequests
  /\ handledCount' = handledCount + 1
  /\ request' = [handler |-> "stripe-webhook", method |-> method, sig |-> sig,
                 type |-> type, session_id |-> "", urlError |-> urlError,
                 dbError |-> dbError, emailError |-> emailError]
  /\ IF method # "POST"
     THEN response' = Respond(405, FALSE) /\ UNCHANGED effects
     ELSE IF ~ConstructEvent(sig)
     THEN response' = Respond(400, FALSE) /\ UNCHANGED effects
     ELSE /\ response' = Respond(200, FALSE)
          /\ IF type = "checkout.session.completed" /\ ~urlError
             THEN effects' = Fulfil(dbError, emailError)
             ELSE UNCHANGED effects
  /\ UNCHANGED exceptShop

\* GET /api/get-download-link?session_id=...
GetDownloadLink(method, session_id, urlError, dbError, emailError) ==
  /\ handledCount < MaxRequests
  /\ handledCount' = handledCount + 1
  /\ request' = [handler |-> "get-download-link", method |-> method, sig |-> "",
                 type |-> "", session_id |-> session_id, urlError |-> urlError,
                 dbError |-> dbError, emailError |-> emailError]
  /\ IF method # "GET"
     THEN response' = Respond(405, FALSE) /\ UNCHANGED effects
     ELSE IF session_id = NoSessionId
     THEN response' = Respond(400, FALSE) /\ UNCHANGED effects
     ELSE IF session_id \notin DOMAIN PaymentStatus
     THEN \* stripe.checkout.sessions.retrieve throws
          response' = Respond(500, FALSE) /\ UNCHANGED effects
     ELSE IF ~PaymentCompleted(PaymentStatus[session_id])
     THEN response' = Respond(400, FALSE) /\ UNCHANGED effects
     ELSE IF urlError
     THEN response' = Respond(500, FALSE) /\ UNCHANGED effects
     ELSE /\ response' = Respond(200, TRUE)
          /\ effects' = Fulfil(dbError, emailError)
  /\ UNCHANGED exceptShop

NextShop ==
  \/ \E method \in Methods, sig \in Signatures, type \in EventTypes,
        urlError, dbError, emailError \in BOOLEAN :
       StripeWebhook(method, sig, type, urlError, dbError, emailError)
  \/ \E method \in Methods, session_id \in SessionIds,
        urlError, dbError, emailError \in BOOLEAN :
       GetDownloadLink(method, session_id, urlError, dbError, emailError)

SpecShop == Init /\ [][NextShop]_vars

(***************************************************************************)
(* AIProcessor.batchProcess: the loop over batches of `concurrency` items  *)
(* and the processItem call of each item.                                  *)
(***************************************************************************)
\* the indexes of items.slice(i, i + concurrency)
BatchIndexes(call) ==
  {index \in ItemIndexes :
     index >= call.i /\ index < call.i + call.concurrency /\ index < call.items}

\* processItem up to its first await: `while (attempts <= retries)` calls the
\* processor, or the function returns at once
StartItem(retries) ==
  IF 0 <= retries
  THEN [st |-> "calling", attempts |-> 0, calls |-> 1, result |-> FALSE, error |-> FALSE]
  ELSE [st |-> "done", attempts |-> 0, calls |-> 0, result |-> FALSE, error |-> FALSE]

\* batchProcess(items, processor, {concurrency, retries})
BatchProcess(items, concurrency, retries) ==
  /\ batchCall.pc = "idle"
  /\ batchCall' = [pc |-> IF 0 < items THEN "loop" ELSE "returned", items |-> items,
                   concurrency |-> concurrency, retries |-> retries, i |-> 0]
  /\ UNCHANGED <<exceptBatch, batchItems>>

\* one pass of the for loop up to `await Promise.all(promises)`
StartBatch ==
  /\ batchCall.pc = "loop"
  /\ batchItems' = [index \in ItemIndexes |->
       IF index \in BatchIndexes(batchCall) THEN StartItem(batchCall.retries)
       ELSE batchItems[index]]
  /\ batchCall' = [batchCall EXCEPT !.pc = "await"]
  /\ UNCHANGED exceptBatch

\* the promise of a processor call settles: resolved (ok) or rejected
ProcessorSettles(index, ok) ==
  /\ batchItems[index].st = "calling"
  /\ batchItems' = [batchItems EXCEPT ![index] =
       IF ok THEN [@ EXCEPT !.st = "done", !.result = TRUE]
       ELSE IF @.attempts + 1 > batchCall.retries
       THEN [@ EXCEPT !.st = "done", !.attempts = @ + 1, !.error = TRUE]
       ELSE [@ EXCEPT !.st = "waiting", !.attempts = @ + 1]]
  /\ UNCHANGED <<exceptBatch, batchCall>>

\* the setTimeout before a retry fires and the while loop calls the processor
RetryItem(index) ==
  /\ batchItems[index].st = "waiting"
  /\ batchItems' = [batchItems EXCEPT ![index] =
       [@ EXCEPT !.st = "calling", !.calls = @ + 1]]
  /\ UNCHANGED <<exceptBatch, batchCall>>

\* Promise.all of the batch resolves: i += concurrency, and the loop goes on
\* or batchProcess returns
FinishBatch ==
  /\ batchCall.pc = "await"
  /\ \A index \in BatchIndexes(batchCall) : batchItems[index].st = "done"
  /\ batchCall' = [batchCall EXCEPT
       !.i = @ + batchCall.concurrency,
       !.pc = IF batchCall.i + batchCall.concurrency < batchCall.items
              THEN "loop" ELSE "returned"]
  /\ UNCHANGED <<exceptBatch, batchItems>>

NextBatch ==
  \/ \E items \in 0..MaxItems, concurrency \in Concurrencies, retries \in RetryCounts :
       BatchProcess(items, concurrency, retries)
  \/ StartBatch
  \/ \E index \in ItemIndexes, ok \in BOOLEAN : ProcessorSettles(index, ok)
  \/ \E index \in ItemIndexes : RetryItem(index)
  \/ FinishBatch

SpecBatch == Init /\ [][NextBatch]_vars

(***************************************************************************)
(* VentaroIoTManager: registerDevice, unregisterDevice, updateDeviceStatus *)
(***************************************************************************)
\* Array.from(this.devices.values()).filter(d => d.status === 'online').length
OnlineCount(devs) == Cardinality({id \in DeviceIds : devs[id] = "online"})

\* registerDevice(deviceInfo): a new entry with status 'offline', also over an
\* entry of the same id
RegisterDevice(id) ==
  /\ devices' = [devices EXCEPT ![id] = "offline"]
  /\ UNCHANGED <<exceptIot, devicesConnected>>

\* unregisterDevice(deviceId): throws for an unknown id
UnregisterDevice(id) ==
  /\ devices[id] # NotRegistered
  /\ devices' = [devices EXCEPT ![id] = NotRegistered]
  /\ UNCHANGED <<exceptIot, devicesConnected>>

\* updateDeviceStatus(deviceId, status): returns at once for an unknown id
UpdateDeviceStatus(id, status) ==
  IF devices[id] = NotRegistered
  THEN UNCHANGED vars
  ELSE /\ devices' = [devices EXCEPT ![id] = status]
       /\ devicesConnected' = OnlineCount(devices')
       /\ UNCHANGED exceptIot

NextIot ==
  \/ \E id \in DeviceIds : RegisterDevice(id)
  \/ \E id \in DeviceIds : UnregisterDevice(id)
  \/ \E id \in DeviceIds, status \in DeviceStatuses : UpdateDeviceStatus(id, status)

SpecIot == Init /\ [][NextIot]_vars

(***************************************************************************)
(* The AI models and the result cache: runInference, the optimizeModels    *)
(* timer of startOptimization and cleanupModelCache.                       *)
(***************************************************************************)
\* generateCacheKey(modelName, inputData): a hash of both
CacheKey(m, input) == <<m, input>>
KeyModel(key) == key[1]

\* a sequence with key k moved, or added, to its end
MoveToEnd(seq, k) == Append(SelectSeq(seq, LAMBDA x : x # k), k)

Min(a, b) == IF a < b THEN a ELSE b

\* now - modelInfo.lastUsed > maxIdleTime && modelInfo.usageCount === 0
UnusedOrIdle(modelInfo) == modelInfo.idle > MaxIdleTime \/ modelInfo.usageCount = 0
Unused(modelInfo) == modelInfo.idle > MaxIdleTime /\ modelInfo.usageCount = 0

\* OptimizeInterval minutes pass
TimePasses ==
  /\ ~crashed
  /\ \E m \in ModelNames :
       aiModels[m].loaded /\ aiModels[m].idle < MaxTicks * OptimizeInterval
  /\ aiModels' = [m \in ModelNames |->
       IF aiModels[m].loaded
       THEN [aiModels[m] EXCEPT
               !.idle = Min(@ + OptimizeInterval, MaxTicks * OptimizeInterval)]
       ELSE aiModels[m]]
  /\ UNCHANGED <<exceptModels, inflight, modelCache, cacheUse, crashed>>

\* runInference up to its await: the model is fetched, a cached result is
\* returned at once, otherwise the prediction is started
RunInferenceStart(m, input) ==
  /\ ~crashed
  /\ aiModels[m].loaded
  /\ CacheKey(m, input) \notin inflight
  /\ IF CacheKey(m, input) \in SeqSet(modelCache)
     THEN /\ cacheUse' = MoveToEnd(cacheUse, CacheKey(m, input))
          /\ UNCHANGED inflight
     ELSE /\ aiModels[m].usageCount + Cardinality({k \in inflight : KeyModel(k) = m})
               < MaxUsage
          /\ inflight' = inflight \cup {CacheKey(m, input)}
          /\ UNCHANGED cacheUse
  /\ UNCHANGED <<exceptModels, aiModels, modelCache, crashed>>

\* the awaited result arrives: it is cached and the usage of the modelInfo
\* fetched at the start is updated (it counts only while it is in aiModels)
RunInferenceDone(key) ==
  /\ ~crashed
  /\ key \in inflight
  /\ inflight' = inflight \ {key}
  /\ modelCache' = IF key \in SeqSet(modelCache) THEN modelCache
                   ELSE Append(modelCache, key)
  /\ cacheUse' = MoveToEnd(cacheUse, key)
  /\ aiModels' = IF aiModels[KeyModel(key)].loaded
                 THEN [aiModels EXCEPT ![KeyModel(key)].usageCount = @ + 1,
                                       ![KeyModel(key)].idle = 0]
                 ELSE aiModels
  /\ UNCHANGED <<exceptModels, crashed>>

\* the loop of optimizeModels from position i of aiModels on; failing are the
\* models whose dispose() throws: the exception ends the loop
RECURSIVE OptimizeFrom(_, _, _)
OptimizeFrom(models, i, failing) ==
  IF i > Len(ModelOrder) THEN [models |-> models, thrown |-> FALSE]
  ELSE LET m == ModelOrder[i]
       IN IF models[m].loaded /\ Unused(models[m])
          THEN IF ModelType(m) = "tensorflow" /\ m \in failing
               THEN [models |-> models, thrown |-> TRUE]
               ELSE OptimizeFrom(
                      [models EXCEPT ![m] =
                         [loaded |-> FALSE, disposed |-> ModelType(m) = "tensorflow",
                          idle |-> 0, usageCount |-> 0]],
                      i + 1, failing)
          ELSE OptimizeFrom(models, i + 1, failing)

\* one run of optimizeModels from its timer; nothing catches what it throws
OptimizeModels(failing) ==
  /\ ~crashed
  /\ LET r == OptimizeFrom(aiModels, 1, failing)
     IN /\ aiModels' = r.models
        /\ crashed' = r.thrown
  /\ UNCHANGED <<exceptModels, inflight, modelCache, cacheUse>>

\* cleanupModelCache: the entries inserted first go
CleanupModelCache ==
  /\ ~crashed
  /\ Len(modelCache) > ModelCacheSize
  /\ LET kept == SubSeq(modelCache, Len(modelCache) - ModelCacheSize + 1,
                        Len(modelCache))
     IN /\ modelCache' = kept
        /\ cacheUse' = SelectSeq(cacheUse, LAMBDA k : k \in SeqSet(kept))
  /\ UNCHANGED <<exceptModels, aiModels, inflight, crashed>>

NextModels ==
  \/ TimePasses
  \/ \E m \in ModelNames : RunInferenceStart(m, "x")
  \/ \E key \in ModelNames \X InferenceInputs : RunInferenceDone(key)
  \/ \E failing \in SUBSET ModelNames : OptimizeModels(failing)

SpecModels == Init /\ [][NextModels]_vars

\* runInference with every input, and the cleanupModelCache timer
NextCache ==
  \/ \E m \in ModelNames, input \in InferenceInputs : RunInferenceStart(m, input)
  \/ \E key \in ModelNames \X InferenceInputs : RunInferenceDone(key)
  \/ CleanupModelCache

SpecCache == Init /\ [][NextCache]_vars

(***************************************************************************)
(* Properties                                                              *)
(***************************************************************************)
\* a node is alive: the local node, or a peer in meshClients
Alive(nodeId) == nodeId = LocalId \/ nodeId \in SeqSet(meshClients)

\* a node is alive and advertises the type
AliveCapable(nodeId, type) == Alive(nodeId) /\ type \in Capabilities(nodeId)

\* this step is the submitTask call of a new task
Submitted == Len(tasks') = Len(tasks) + 1

\* the task a Submitted step creates, and the frame of its call
NewId == Len(tasks) + 1

\* scheduleTask returns for task t in this step
Decided(t) ==
  /\ t \in 1..Len(proc')
  /\ proc'[t].target # NoNode
  /\ t \in 1..Len(proc) => proc[t].target = NoNode

\* C1: a task whose nodeAffinity names a node that is alive and advertises the
\* task's type is scheduled on exactly that node, and calculateNodeScore is not
\* called during that scheduleTask call.
C1_AffinityBypassesScorer ==
  [][(Submitted /\ tasks'[NewId].nodeAffinity # NoAffinity
        /\ AliveCapable(tasks'[NewId].nodeAffinity, tasks'[NewId].type))
     => (proc'[NewId].target = tasks'[NewId].nodeAffinity
         /\ proc'[NewId].scoreCalls = 0)]_vars

\* C1 witness: a task with affinity to a connected, capable peer has been
\* scheduled on that peer without a scorer call and awaits its dispatch.
C1_Witness ==
  \E t \in 1..Len(tasks) :
    /\ tasks[t].nodeAffinity \in PeerIds
    /\ AliveCapable(tasks[t].nodeAffinity, tasks[t].type)
    /\ proc[t].pc = "send"
    /\ proc[t].target = tasks[t].nodeAffinity
    /\ proc[t].scoreCalls = 0

\* C2: when nodeAffinity names a node that is not alive or does not advertise
\* the task's type, scheduleTask does not return that node but fails with an
\* affinity error, and the task is not dispatched to that node.
C2_DeadAffinityRejected ==
  [][(Submitted /\ tasks'[NewId].nodeAffinity # NoAffinity
        /\ ~AliveCapable(tasks'[NewId].nodeAffinity, tasks'[NewId].type))
     => (proc'[NewId].target # tasks'[NewId].nodeAffinity
         /\ proc'[NewId].error = "Affinity node unavailable"
         /\ proc'[NewId].pc = "rejected")]_vars

\* the scores one selectOptimalNode call has computed when it returns in this
\* step: all of them in the step itself when no await let another event in,
\* else the ones of the frame and the last local one
DecisionScores(t) ==
  IF t \in 1..Len(proc)
  THEN proc[t].scored \cup {<<LocalId, FinishLocal(proc[t].partial, tasks[t].type)>>}
  ELSE RemoteScored(meshClients)
         \cup {<<LocalId, CalculateNodeScore(LocalId, tasks'[t].type)>>}

\* the candidates of that call: availableNodes
DecisionCandidates(t) ==
  {LocalId} \cup (IF t \in 1..Len(proc) THEN SeqSet(proc[t].availableNodes)
                                          ELSE SeqSet(meshClients))

\* C3: for a task without affinity the node selectOptimalNode returns has the
\* maximum of the scores computed for the candidates (the local node and the
\* peers connected when the call started): every candidate was scored and no
\* computed score is strictly higher than the returned node's.
C3_SelectedHasMaxScore ==
  [][\A t \in 1..MaxTasks :
       (Decided(t) /\ tasks'[t].nodeAffinity = NoAffinity)
       => /\ \A n \in DecisionCandidates(t) :
               \E e \in DecisionScores(t) : e[1] = n
          /\ \E e \in DecisionScores(t) :
               /\ e[1] = proc'[t].target
               /\ \A o \in DecisionScores(t) : o[2] <= e[2]]_vars

\* C3 witness: the scorer chose a remote peer for a task of a queue type, so
\* the peer's score was compared with the local node's after the awaits.
C3_Witness ==
  \E t \in 1..Len(tasks) :
    /\ tasks[t].nodeAffinity = NoAffinity
    /\ tasks[t].type \in QueueTypes
    /\ proc[t].target \in PeerIds
    /\ proc[t].scoreCalls = 4

\* the CPU percentage, memory percentage and queue depth the scorer is given
\* for a node: the local metrics and queue, or the peer's load report (50, 50
\* and 0 while there is none)
GivenCpu(nodeId) ==
  IF nodeId = LocalId THEN cpuUsage
  ELSE IF nodeId \in DOMAIN nodeLoads THEN nodeLoads[nodeId].cpu ELSE 50
GivenMemory(nodeId) ==
  IF nodeId = LocalId THEN (memoryUsage * 100) \div OsTotalMem
  ELSE IF nodeId \in DOMAIN nodeLoads THEN nodeLoads[nodeId].memory ELSE 50
GivenDepth(nodeId, type) ==
  IF nodeId = LocalId THEN (IF type \in QueueTypes THEN waiting[type] ELSE 0)
  ELSE IF nodeId \in DOMAIN nodeLoads THEN nodeLoads[nodeId].queue ELSE 0

\* the cap of the queue-depth term: the whole score range
QueueCap == ScoreBase

\* max(0, 100 - CPU% - memory% - min(depth, cap) - (10 if remote else 0))
StatedScore(cpu, mem, depth, remote) ==
  LET capped == IF depth < QueueCap THEN depth ELSE QueueCap
      raw == 100 - cpu - mem - capped - (IF remote THEN 10 ELSE 0)
  IN IF raw < 0 THEN 0 ELSE raw

\* the load report of the scenario: CPU 10%, memory 20%, queue 0
ScenarioLoad == [cpu |-> 10, memory |-> 20, queue |-> 0]

\* the local node of the scenario, for a task type
ScenarioLocal(type) ==
  GivenCpu(LocalId) = 10 /\ GivenMemory(LocalId) = 20 /\ GivenDepth(LocalId, type) = 0

\* the peers of the scenario: at least one, each with the scenario's report
ScenarioPeers ==
  /\ meshClients # <<>>
  /\ \A n \in SeqSet(meshClients) : n \in DOMAIN nodeLoads /\ nodeLoads[n] = ScenarioLoad

C4_WitnessDeepQueue ==
  /\ lastScore.node = LocalId
  /\ GivenDepth(LocalId, lastScore.type) > QueueCap
  /\ GivenCpu(LocalId) = 0
  /\ lastScore.score = 0

\* C5: every score calculateNodeScore returns, for the local node or a peer,
\* with or without a load report, lies in 0..100.
C5_ScoreInRange ==
  lastScore.node # NoNode => lastScore.score \in 0..100

\* C5 witness: a peer without a load report, whose raw score is -10, and
\* which was scored 0.
C5_Witness ==
  /\ lastScore.node \in PeerIds
  /\ lastScore.node \notin DOMAIN nodeLoads
  /\ 100 - GivenCpu(lastScore.node) - GivenMemory(lastScore.node) - 10 < 0
  /\ lastScore.score = 0

\* the candidates that share the maximal score for a type, as the scorer
\* scores them now
TiedAtMax(type) ==
  LET cands == {LocalId} \cup SeqSet(meshClients)
  IN {n \in cands :
        \A m \in cands : CalculateNodeScore(m, type) <= CalculateNodeScore(n, type)}

\* the lexicographically lowest id of a set of node ids
LowestId(ids) == CHOOSE n \in ids : \A m \in ids : Rank(n) <= Rank(m)

\* C6: when two or more candidates share the maximal score, the selected node
\* is the local node if it is among them, else the tied node with the
\* lexicographically lowest id.
C6_TieBreakLocalThenLowestId ==
  (lastSelect.node # NoNode /\ Cardinality(TiedAtMax(lastSelect.type)) >= 2)
  => lastSelect.node =
       (IF LocalId \in TiedAtMax(lastSelect.type) THEN LocalId
        ELSE LowestId(TiedAtMax(lastSelect.type)))

\* C7: selection is deterministic: a second selectOptimalNode call for the
\* same task type on the same nodes, load reports, metrics and queue depths
\* returns the node the first call returned, also when the peers connected
\* in another order.
C7_SameNodeInAnyOrder ==
  lastSelect.node # NoNode =>
    \A order \in MeshOrders :
      SeqSet(order) = SeqSet(meshClients)
      => SelectOptimalNode(order, lastSelect.type) = lastSelect.node

\* no candidate (the local node or a connected peer) advertises the type
NoCandidate(type) ==
  \A n \in {LocalId} \cup SeqSet(meshClients) : type \notin Capabilities(n)

\* C8: when no alive node advertises the task's type, scheduleTask returns no
\* node but fails with NoCapableNodeError, the task is dispatched to no node
\* and its status stays pending.
C8_NoCapableNodeError ==
  [][(Submitted /\ tasks'[NewId].nodeAffinity = NoAffinity
        /\ NoCandidate(tasks'[NewId].type))
     => (proc'[NewId].target = NoNode
         /\ proc'[NewId].error = "NoCapableNodeError"
         /\ proc'[NewId].pc = "rejected"
         /\ tasks'[NewId].status = "pending")]_vars

\* C9: a node chosen for a task, by scoring or by affinity, advertises the
\* task's type.
C9_ChosenNodeIsCapable ==
  \A t \in 1..Len(tasks) :
    proc[t].target # NoNode => tasks[t].type \in Capabilities(proc[t].target)

\* C10: after a remote dispatch the chosen node did not pick up, scheduleTask
\* is called again for the task with its affinity cleared, once per failure
\* and at most RetryAttempts times; after that the task is marked failed.
C10_RescheduledAfterDispatchFailure ==
  \A t \in 1..Len(tasks) :
    proc[t].dispatchFailures >= 1 =>
      IF proc[t].dispatchFailures <= RetryAttempts
      THEN /\ proc[t].scheduleCalls = proc[t].dispatchFailures + 1
           /\ tasks[t].nodeAffinity = NoAffinity
      ELSE tasks[t].status = "failed"

C12_DeadLetterAtTaskRetries ==
  \A t \in DOMAIN jobs :
    jobs[t].state = "failed" <=> jobs[t].attemptsMade >= tasks[t].retries

\* every failed attempt raises attemptsMade by exactly one, nothing else changes it
AttemptsStepByOne ==
  [][\A t \in DOMAIN jobs :
       jobs'[t].attemptsMade # jobs[t].attemptsMade
         => /\ jobs'[t].attemptsMade = jobs[t].attemptsMade + 1
            /\ notified'[t].failed = notified[t].failed + 1]_vars

\* with the retries of the configuration the failed set is entered exactly at
\* retryAttempts failed attempts
DefaultRetriesDeadLetter ==
  \A t \in DOMAIN jobs :
    tasks[t].retries = RetryAttempts
      => (jobs[t].state = "failed" <=> jobs[t].attemptsMade >= RetryAttempts)

\* C13: every task whose submitTask call ended in a failure (no capable node,
\* unknown task type, failed dispatch) has been reported through the
\* task-failed notification.
C13_TerminalFailureNotified ==
  \A t \in 1..Len(proc) : proc[t].pc = "rejected" => notified[t].taskFailed >= 1

HeldBy(t) ==
  (IF tasks[t].status = "processing" THEN {LocalId} ELSE {})
    \cup (IF proc[t].pc \in {"send", "returned"} /\ proc[t].target \in PeerIds
          THEN {proc[t].target} ELSE {})

C17_DeadNodeDispatchRetried ==
  \A t \in 1..Len(proc) :
    (proc[t].lostPeer /\ proc[t].pc # "send") => proc[t].scheduleCalls >= 2

C20_WorkersWithinBounds ==
  Cardinality(workers) >= 1 /\ Cardinality(workers) <= OsCpus

\* a run of optimizeResources adds one worker only above 80% CPU and below
\* maxWorkers, removes one only below 30% CPU and above one worker, and
\* otherwise leaves the pool as it is (the 'exit' handler forks on its own)
TickChangesByOne ==
  [][/\ Cardinality(workers') - Cardinality(workers) \in {-1, 0, 1}
     /\ (forked' = forked /\ workers' # workers)
          => /\ Cardinality(workers') = Cardinality(workers) - 1
             /\ cpuUsage < 30
             /\ Cardinality(workers) > 1
     /\ (forked' # forked /\ exiting' = exiting /\ workers \subseteq workers')
          => /\ Cardinality(workers') = Cardinality(workers) + 1
             /\ cpuUsage > 80
             /\ Cardinality(workers) < OsCpus]_vars

\* C21: optimizeModels removes a model only if it has been idle for more than
\* 30 minutes and was never used since its load, and a run of optimizeModels
\* that returns leaves no loaded model that is both.
C21_RemovesExactlyIdleUnused ==
  [][/\ \A m \in ModelNames :
          (aiModels[m].loaded /\ ~aiModels'[m].loaded)
            => (aiModels[m].idle > 30 /\ aiModels[m].usageCount = 0)
     /\ ((\E m \in ModelNames : aiModels[m].loaded /\ ~aiModels'[m].loaded)
           /\ ~crashed')
          => \A m \in ModelNames :
               aiModels'[m].loaded
                 => ~(aiModels'[m].idle > 30 /\ aiModels'[m].usageCount = 0)]_vars

\* C21 witness: one model was removed while the other, used once and idle for
\* more than 30 minutes as well, is still loaded.
C21_Witness ==
  \E m, u \in ModelNames :
    /\ ~aiModels[m].loaded
    /\ aiModels[u].loaded
    /\ aiModels[u].usageCount > 0
    /\ aiModels[u].idle > 30

\* C22: a failure inside a run of optimizeModels stays inside it: no
\* exception leaves the timer callback and ends the process.
C22_TickFailureContained == ~crashed

\* C25: a model an inference is in flight on is loaded (neither removed nor
\* disposed) until the inference completes.
C25_InflightModelLoaded ==
  \A key \in inflight :
    aiModels[KeyModel(key)].loaded /\ ~aiModels[KeyModel(key)].disposed

\* position of key k in the sequence of keys by last use
UsePos(k) == CHOOSE i \in 1..Len(cacheUse) : cacheUse[i] = k

\* C28: a run of cleanupModelCache leaves at most modelCacheSize entries and
\* evicts no entry that was used (inserted or hit) more recently than an
\* entry it keeps.
C28_CacheIsLRU ==
  [][Len(modelCache') < Len(modelCache)
      => /\ Len(modelCache') <= ModelCacheSize
         /\ \A e \in SeqSet(modelCache) \ SeqSet(modelCache') :
              \A k \in SeqSet(modelCache') : UsePos(e) < UsePos(k)]_vars

\* the part of C28 that holds: after a run at most modelCacheSize entries
CleanupBoundsCache ==
  [][Len(modelCache') < Len(modelCache) => Len(modelCache') <= ModelCacheSize]_vars

\* C26: the scale-down of optimizeResources is effective: handling the 'exit'
\* event of a worker the optimizer killed leaves the count at the reduced
\* value, one less than before the tick, and never above maxWorkers.
C26_ScaleDownEffective ==
  [][(exiting' # exiting /\ exiting' \subseteq exiting)
      => /\ Cardinality(workers') = Cardinality(workers)
         /\ Cardinality(workers') <= OsCpus]_vars

\* C27: a task of a supported type T that is processed locally is executed
\* by the handler for T, whatever type field its payload carries.
C27_HandlerOfSubmittedType ==
  handled # NoHandled => handled.handler = handled.queue

\* C23: the Stripe webhook handler has a side effect (signed URL, purchase
\* row, email) only for a POST whose signature verifies; a POST whose
\* signature does not verify is answered 400 and any other method 405, both
\* with no side effect.
C23_WebhookVerifiesFirst ==
  [][(handledCount' # handledCount /\ request'.handler = "stripe-webhook")
      => /\ effects' # effects
              => (request'.method = "POST" /\ request'.sig = "t=1,v1=hmac(body)")
         /\ (request'.method = "POST" /\ request'.sig # "t=1,v1=hmac(body)")
              => (response'.status = 400 /\ effects' = effects)
         /\ request'.method # "POST"
              => (response'.status = 405 /\ effects' = effects)]_vars

\* C23 witness: after a purchase was fulfilled, a completed-checkout event
\* with a signature that does not verify was answered 400.
C23_Witness ==
  /\ request.handler = "stripe-webhook"
  /\ request.method = "POST"
  /\ request.sig = "t=1,v1=other"
  /\ request.type = "checkout.session.completed"
  /\ response.status = 400
  /\ effects.signedUrls = 1

\* C24: get-download-link answers 200 with a downloadUrl only for a session
\* whose payment_status is 'paid'; a GET with no session id or for a session
\* that is not paid is answered 400 with no signed URL, no purchase row and
\* no email.
C24_DownloadOnlyWhenPaid ==
  [][(handledCount' # handledCount /\ request'.handler = "get-download-link")
      => /\ (response'.status = 200 \/ response'.downloadUrl \/ effects' # effects)
              => /\ request'.session_id = "cs_paid"
                 /\ response'.status = 200
                 /\ response'.downloadUrl
         /\ (request'.method = "GET"
               /\ request'.session_id \in {"undefined", "cs_unpaid", "cs_free"})
              => (response'.status = 400 /\ ~response'.downloadUrl
                   /\ effects' = effects)]_vars

\* C24 witness: a paid session got its download link, with the purchase
\* stored and the email sent.
C24_Witness ==
  /\ request.handler = "get-download-link"
  /\ request.session_id = "cs_paid"
  /\ response.status = 200
  /\ response.downloadUrl
  /\ effects = [signedUrls |-> 1, purchases |-> 1, emails |-> 1]

\* processor calls in flight
InFlight == Cardinality({index \in ItemIndexes : batchItems[index].st = "calling"})

\* what C29 says of the calls: at most retries + 1 per item, at most
\* `concurrency` in flight
BatchCallsBounded ==
  /\ \A index \in ItemIndexes : batchItems[index].calls <= batchCall.retries + 1
  /\ InFlight <= batchCall.concurrency

\* what C29 says of the outcomes: on return every item has a result or, when no
\* attempt succeeded, an error, never both
BatchOutcomes ==
  batchCall.pc = "returned"
    => \A index \in ItemIndexes :
         index < batchCall.items
           => (batchItems[index].result # batchItems[index].error)

\* C29: batchProcess terminates (every pass of its loop moves on to later
\* items, which are finitely many), calls the processor at most retries + 1
\* times per item with at most `concurrency` calls in flight, and on return
\* every item index has exactly one outcome.
C29_BatchTerminatesWithOutcomes ==
  [][/\ (batchCall.pc = "await" /\ batchCall'.pc # "await")
          => batchCall'.i > batchCall.i
     /\ BatchCallsBounded'
     /\ BatchOutcomes']_vars

\* with concurrency >= 1 and retries >= 0 all of C29 holds
BatchSoundForUsualOptions ==
  [][(batchCall'.concurrency >= 1 /\ batchCall'.retries >= 0)
      => /\ (batchCall.pc = "await" /\ batchCall'.pc # "await")
              => batchCall'.i > batchCall.i
         /\ BatchCallsBounded'
         /\ BatchOutcomes']_vars

\* C30: after any sequence of registerDevice, updateDeviceStatus and
\* unregisterDevice calls, metrics.devicesConnected is the number of
\* registered devices whose status is 'online'.
C30_ConnectedCountsOnline ==
  devicesConnected = Cardinality({id \in DeviceIds : devices[id] = "online"})

\* the part of C30 that holds: whenever the metric changes, which only
\* updateDeviceStatus of a registered device does, it is right afterwards
MetricRightAfterUpdate ==
  [][devicesConnected' # devicesConnected
      => devicesConnected' = Cardinality({id \in DeviceIds : devices'[id] = "online"})]_vars
====
